---- MODULE Spec2Model ----
(***************************************************************************)
(* Folder Wizard (src/folder_wizard.py): the move-and-log engine.          *)
(*                                                                         *)
(* A string is a sequence of one-character strings, a file or directory    *)
(* name is a string, and a path is the sequence of names below the         *)
(* operation root (the root itself is << >>).  The file system is a map    *)
(* from file paths to file identities plus a set of directory paths; the   *)
(* log store is one record per operation identifier.                       *)
(***************************************************************************)
EXTENDS Integers, Sequences, FiniteSets, TLC

(***************************************************************************)
(* Bounds of the model.                                                    *)
(***************************************************************************)
MaxFiles == 3
MaxRuns == 1
MaxLevels == 2
MaxFaults == 1
MaxPause == 1

(***************************************************************************)
(* Strings: str.replace, str.split, str.strip, os.path.splitext.           *)
(***************************************************************************)
DigitChar == <<"0", "1", "2", "3", "4", "5", "6", "7", "8", "9">>

RECURSIVE Decimal(_)
Decimal(n) ==
    IF n < 10 THEN <<DigitChar[n + 1]>>
    ELSE Decimal(n \div 10) \o <<DigitChar[(n % 10) + 1]>>

Drop(s, k) == SubSeq(s, k + 1, Len(s))

StartsWith(s, d) == Len(d) <= Len(s) /\ SubSeq(s, 1, Len(d)) = d

\* str.replace(r, ''): every non-overlapping occurrence of r, left to right;
\* with r empty the string is returned as it is.
RECURSIVE Replace(_, _)
Replace(s, r) ==
    IF r = << >> \/ s = << >> THEN s
    ELSE IF StartsWith(s, r) THEN Replace(Drop(s, Len(r)), r)
    ELSE <<Head(s)>> \o Replace(Tail(s), r)

\* str.split(d) for a non-empty separator d: the list of fragments.
RECURSIVE Split(_, _)
Split(s, d) ==
    IF s = << >> THEN << << >> >>
    ELSE IF StartsWith(s, d) THEN << << >> >> \o Split(Drop(s, Len(d)), d)
    ELSE LET rest == Split(Tail(s), d)
         IN  <<(<<Head(s)>> \o Head(rest))>> \o Tail(rest)

\* str.strip(): surrounding blanks removed.
RECURSIVE Strip(_)
Strip(s) ==
    IF s = << >> THEN s
    ELSE IF Head(s) = " " THEN Strip(Tail(s))
    ELSE IF s[Len(s)] = " " THEN Strip(SubSeq(s, 1, Len(s) - 1))
    ELSE s

\* Index of the last "." of a name, 0 when there is none.
RECURSIVE LastDot(_)
LastDot(s) ==
    IF s = << >> THEN 0
    ELSE IF s[Len(s)] = "." THEN Len(s)
    ELSE LastDot(SubSeq(s, 1, Len(s) - 1))

\* os.path.splitext on the last path component: the extension starts at the
\* last dot unless only dots precede it.
splitext(name) ==
    LET k == LastDot(name)
    IN  IF k > 0 /\ \E i \in 1..(k - 1) : name[i] # "."
        THEN <<SubSeq(name, 1, k - 1), SubSeq(name, k, Len(name))>>
        ELSE <<name, << >> >>

(***************************************************************************)
(* FolderWizard.remove_chars and the delimiter loop of                     *)
(* process_down_movement.                                                  *)
(***************************************************************************)
RECURSIVE remove_chars(_, _)
remove_chars(filename, chars_to_remove) ==
    IF chars_to_remove = << >> THEN filename
    ELSE LET char == Head(chars_to_remove)
         IN  remove_chars(IF char # << >> THEN Replace(filename, Strip(char))
                          ELSE filename,
                          Tail(chars_to_remove))

RECURSIVE SplitAll(_, _)
SplitAll(parts, delimiter) ==
    IF parts = << >> THEN << >>
    ELSE Split(Head(parts), delimiter) \o SplitAll(Tail(parts), delimiter)

\* part.split('') raises ValueError (empty separator).
SplitRaises(delimiters) == \E i \in 1..Len(delimiters) : delimiters[i] = << >>

RECURSIVE SplitParts(_, _)
SplitParts(parts, delimiters) ==
    IF delimiters = << >> THEN parts
    ELSE SplitParts(SplitAll(parts, Head(delimiters)), Tail(delimiters))

(***************************************************************************)
(* The file system: os.path.exists, os.makedirs, shutil.move.              *)
(* fs is a record [files, dirs]: files maps each file path to the identity *)
(* of the file stored there, dirs is the set of directory paths.           *)
(***************************************************************************)
Root == << >>

Parent(p) == SubSeq(p, 1, Len(p) - 1)

Basename(p) == p[Len(p)]

IsFile(fs, p) == p \in DOMAIN fs.files

IsDir(fs, p) == p \in fs.dirs

\* os.path.exists; a path whose last name is empty is "dir/" and exists
\* exactly when dir is a directory.
Exists(fs, p) ==
    IF p # << >> /\ Basename(p) = << >> THEN IsDir(fs, Parent(p))
    ELSE IsFile(fs, p) \/ IsDir(fs, p)

Prefixes(p) == {SubSeq(p, 1, k) : k \in 0..Len(p)}

\* os.makedirs(p, exist_ok=True): raises when p or one of its ancestors is a
\* file, otherwise creates every missing directory down to p.
makedirs(fs, p) ==
    IF \E q \in Prefixes(p) : IsFile(fs, q)
    THEN [ok |-> FALSE, fs |-> fs]
    ELSE [ok |-> TRUE, fs |-> [fs EXCEPT !.dirs = @ \cup Prefixes(p)]]

Without(f, p) == [q \in (DOMAIN f) \ {p} |-> f[q]]

With(f, p, v) == [q \in (DOMAIN f) \cup {p} |-> IF q = p THEN v ELSE f[q]]

\* os.rename of a file: the destination's directory must exist; a file at
\* the destination is replaced.
rename(fs, src, dst) ==
    IF IsFile(fs, src) /\ IsDir(fs, Parent(dst)) /\ ~IsDir(fs, dst)
    THEN [ok |-> TRUE,
          fs |-> [fs EXCEPT !.files = With(Without(@, src), dst, fs.files[src])]]
    ELSE [ok |-> FALSE, fs |-> fs]

\* shutil.move(src, dst) of a file: into dst when dst is a directory (an
\* error when the name is taken there), onto dst otherwise.
shutil_move(fs, src, dst) ==
    IF IsDir(fs, dst)
    THEN LET real_dst == Append(dst, Basename(src))
         IN  IF Exists(fs, real_dst) THEN [ok |-> FALSE, fs |-> fs]
             ELSE rename(fs, src, real_dst)
    ELSE rename(fs, src, dst)

(***************************************************************************)
(* FolderWizard.handle_filename_conflict.                                  *)
(***************************************************************************)
Suffixed(target_path, counter) ==
    LET se == splitext(Basename(target_path))
    IN  Append(Parent(target_path),
               se[1] \o <<" ", "(">> \o Decimal(counter) \o <<")">> \o se[2])

RECURSIVE FreeCounter(_, _, _)
FreeCounter(fs, target_path, counter) ==
    IF Exists(fs, Suffixed(target_path, counter))
    THEN FreeCounter(fs, target_path, counter + 1)
    ELSE counter

\* The same without the while loop: the counter stays at 1.
handle_filename_conflict_once(fs, target_path) ==
    IF ~Exists(fs, target_path) THEN target_path
    ELSE Suffixed(target_path, 1)

handle_filename_conflict(fs, target_path) ==
    IF ~Exists(fs, target_path) THEN target_path
    ELSE Suffixed(target_path, FreeCounter(fs, target_path, 1))

(***************************************************************************)
(* The two path transforms.                                                *)
(***************************************************************************)
Max(a, b) == IF a >= b THEN a ELSE b

\* os.path.relpath(root, path).split(os.sep): "." for the root itself.
path_parts(dir) == IF dir = Root THEN << <<".">> >> ELSE dir

\* The same, one level short.
target_level_short(dir, levels) == Max(0, Len(path_parts(dir)) - levels + 1)

target_level(dir, levels) == Max(0, Len(path_parts(dir)) - levels)

UpMoves(dir, levels) == Len(path_parts(dir)) > target_level(dir, levels)

\* os.path.join(path, *path_parts[:target_level])
target_dir(dir, levels) == SubSeq(path_parts(dir), 1, target_level(dir, levels))

\* The fragments of a file name's stem.
Fragments(file, delimiters, chars_to_remove) ==
    SplitParts(<<remove_chars(splitext(file)[1], chars_to_remove)>>, delimiters)

\* for part in parts[:-1]: new_path = os.path.join(new_path, part);
\* os.makedirs(new_path, exist_ok=True).  An empty part joins to the same
\* directory.  Stops at the first makedirs that raises.
RECURSIVE MakeNested(_, _, _)
MakeNested(fs, new_path, parts) ==
    IF Len(parts) <= 1 THEN [ok |-> TRUE, fs |-> fs, new_path |-> new_path]
    ELSE LET next == IF Head(parts) = << >> THEN new_path
                     ELSE Append(new_path, Head(parts))
             made == makedirs(fs, next)
         IN  IF made.ok THEN MakeNested(made.fs, next, Tail(parts))
             ELSE [ok |-> FALSE, fs |-> made.fs, new_path |-> next]

(***************************************************************************)
(* State.                                                                  *)
(***************************************************************************)
VARIABLES
    fs,                     \* the file system below the operation root
    logs,                   \* operation_logs/: logs[id] is <id>.json
    current_operation_id,   \* FolderWizard.current_operation_id, 0 is None
    is_paused,              \* FolderWizard.is_paused
    stats,                  \* FolderWizard.stats
    args,                   \* the parameters of the run in progress
    stack,                  \* os.walk: directories still to list or to yield
    cur,                    \* the move performed and not yet logged
    buf,                    \* log_data of the log_file_move in progress
    pc,                     \* where the program is
    origs,                  \* history: the files at the start of each run
    performed,              \* history: the relocations each run performed,
                            \*   each with the file moved and whether the
                            \*   destination existed just before the move
    finals,                 \* history: the files when each run completed
    faults,                 \* history: failures injected so far
    rb                      \* history: the last rollback_operation call

vars == <<fs, logs, current_operation_id, is_paused, stats, args, stack, cur,
          buf, pc, origs, performed, finals, faults, rb>>

(***************************************************************************)
(* The trees and parameters the model starts from.                         *)
(***************************************************************************)
NameF == <<"f", ".", "t">>
NameF1 == <<"f", " ", "(", "1", ")", ".", "t">>
NameXF == <<"x", "_", "f", ".", "t">>
NameFX == <<"f", "X", ".", "t">>
NameAB == <<"a", "b">>
NameAXBQ == <<"a", "X", "b", "_", "q", ".", "t">>
NameSF == <<" ", "f", ".", "t">>
DirX == <<"x">>
DirY == <<"y">>

\* The candidate files; a file's identity is its index here.
Universe ==
    << <<NameF>>, <<NameF1>>, <<NameXF>>, <<NameFX>>, <<NameAB>>, <<NameAXBQ>>,
       <<DirX, NameF>>, <<DirX, NameSF>>, <<DirX, DirY, NameF>> >>

DelimiterChoices ==
    { << <<"_">> >>, << <<"_">>, <<" ">> >>, << <<" ">> >>, << <<"_">>, << >> >> }

\* The answers to the removal prompt: nothing, " ,X", "ab,X".
RemoveChoices ==
    { << << >> >>, << <<" ">>, <<"X">> >>, << <<"a", "b">>, <<"X">> >> }

NoMove == [source |-> << >>, destination |-> << >>, file |-> 0, clash |-> FALSE]

NoArgs == [mode |-> "none", levels |-> 0, delete_empty |-> FALSE,
           delimiters |-> << >>, chars_to_remove |-> << >>]

NoLog == [readable |-> FALSE, status |-> "", moves |-> << >>]

\* FolderWizard.__init__: the statistics dictionary with every key.
InitStats ==
    [total_files |-> 0, processed_files |-> 0, errors |-> << >>,
     start_time |-> FALSE, end_time |-> FALSE, pause_time |-> FALSE,
     has_pause_keys |-> TRUE, total_pause_duration |-> 0]

Init ==
    /\ \E S \in SUBSET (1..Len(Universe)) :
          /\ Cardinality(S) <= MaxFiles
          /\ fs = [files |-> [p \in {Universe[i] : i \in S} |->
                                 CHOOSE i \in S : Universe[i] = p],
                   dirs |-> UNION {Prefixes(Parent(Universe[i])) : i \in S}
                            \cup {Root}]
    /\ logs = << >>
    /\ current_operation_id = 0
    /\ is_paused = FALSE
    /\ stats = InitStats
    /\ args = NoArgs
    /\ stack = << >>
    /\ cur = NoMove
    /\ buf = NoLog
    /\ pc = "menu"
    /\ origs = << >>
    /\ performed = << >>
    /\ finals = << >>
    /\ faults = 0
    /\ rb = [tick |-> 0, id |-> 0, ret |-> FALSE]

(***************************************************************************)
(* OperationLogger.                                                        *)
(***************************************************************************)
\* create_operation_log: a fresh identifier, status in_progress, no moves.
create_operation_log(store) ==
    Append(store, [readable |-> TRUE, status |-> "in_progress", moves |-> << >>])

\* get_log_file: the log file of operation_id exists.
get_log_file(store, operation_id) == operation_id \in 1..Len(store)

\* log_file_move, up to the open(log_file, 'w'): log_data with the move.
log_data_with(store, operation_id, source, destination) ==
    [store[operation_id] EXCEPT
        !.moves = Append(@, [source |-> source, destination |-> destination])]

\* complete_operation with the status misspelt.
complete_operation_typo(store, operation_id) ==
    IF operation_id \in 1..Len(store)
    THEN [store EXCEPT ![operation_id].status = "complete"]
    ELSE store

\* complete_operation: status <- completed.
complete_operation(store, operation_id) ==
    IF get_log_file(store, operation_id)
    THEN [store EXCEPT ![operation_id].status = "completed"]
    ELSE store

(***************************************************************************)
(* FolderWizard.rollback_operation.                                        *)
(***************************************************************************)
\* for move in reversed(log_data["moves"]): moves[k], moves[k-1], ...; an
\* exception ends the loop.  bad is the index of the move whose shutil.move
\* the environment makes raise (a permission error), 0 for none.
RECURSIVE ReverseReplay(_, _, _, _)
ReverseReplay(f, moves, k, bad) ==
    IF k = 0 THEN [ok |-> TRUE, fs |-> f]
    ELSE LET source == moves[k].destination
             destination == moves[k].source
         IN  IF ~Exists(f, source) THEN ReverseReplay(f, moves, k - 1, bad)
             ELSE LET made == makedirs(f, Parent(destination))
                      moved == shutil_move(made.fs, source, destination)
                  IN  IF ~made.ok THEN [ok |-> FALSE, fs |-> made.fs]
                      ELSE IF k = bad THEN [ok |-> FALSE, fs |-> made.fs]
                      ELSE IF ~moved.ok THEN [ok |-> FALSE, fs |-> moved.fs]
                      ELSE ReverseReplay(moved.fs, moves, k - 1, bad)

\* rollback_operation in an environment where the shutil.move of move bad
\* raises: False when the log is missing, cannot be parsed (json.load
\* raises, caught by the except clause) or is not completed.
rollback_failing(f, store, operation_id, bad) ==
    IF ~get_log_file(store, operation_id) THEN [ok |-> FALSE, fs |-> f]
    ELSE IF ~store[operation_id].readable THEN [ok |-> FALSE, fs |-> f]
    ELSE IF store[operation_id].status # "completed" THEN [ok |-> FALSE, fs |-> f]
    ELSE ReverseReplay(f, store[operation_id].moves,
                       Len(store[operation_id].moves), bad)

\* rollback_operation without the test of the status.
rollback_operation_any_status(f, store, operation_id) ==
    IF ~get_log_file(store, operation_id) THEN [ok |-> FALSE, fs |-> f]
    ELSE IF ~store[operation_id].readable THEN [ok |-> FALSE, fs |-> f]
    ELSE ReverseReplay(f, store[operation_id].moves,
                       Len(store[operation_id].moves), 0)

rollback_operation(f, store, operation_id) ==
    rollback_failing(f, store, operation_id, 0)

(***************************************************************************)
(* A run: start_operation, the os.walk traversal, the per-file steps.      *)
(***************************************************************************)
Scan(dir) == [kind |-> "scan", dir |-> dir, files |-> << >>]

Yield(dir, files) == [kind |-> "yield", dir |-> dir, files |-> files]

\* Every order in which os.scandir may list the members of S.
Orderings(S) ==
    {o \in [1..Cardinality(S) -> S] :
        \A i, j \in 1..Cardinality(S) : i # j => o[i] # o[j]}

\* count_total_files
count_total_files(f) == Cardinality(DOMAIN f.files)

\* start_operation: a new log, and a statistics dictionary that holds only
\* total_files, processed_files, errors, start_time and end_time.
StartOperation(a) ==
    /\ logs' = create_operation_log(logs)
    /\ current_operation_id' = Len(logs) + 1
    /\ stats' = [total_files |-> count_total_files(fs), processed_files |-> 0,
                 errors |-> << >>, start_time |-> TRUE, end_time |-> FALSE,
                 pause_time |-> FALSE, has_pause_keys |-> FALSE,
                 total_pause_duration |-> 0]
    /\ args' = a
    /\ stack' = <<Scan(Root)>>
    /\ origs' = Append(origs, fs.files)
    /\ performed' = Append(performed, << >>)
    /\ finals' = Append(finals, << >>)
    /\ pc' = "walk"
    /\ UNCHANGED <<fs, is_paused, cur, buf, faults, rb>>

\* main_menu choice 1: move_up_structure, process_up_movement.
MoveUpStructure ==
    /\ pc = "menu"
    /\ Len(logs) < MaxRuns
    /\ IsDir(fs, Root)
    /\ \E levels \in 1..MaxLevels, delete_empty \in BOOLEAN :
          StartOperation([mode |-> "up", levels |-> levels,
                          delete_empty |-> delete_empty,
                          delimiters |-> << >>, chars_to_remove |-> << >>])

\* main_menu choice 2: move_down_structure, process_down_movement.
MoveDownStructure ==
    /\ pc = "menu"
    /\ Len(logs) < MaxRuns
    /\ IsDir(fs, Root)
    /\ \E delimiters \in DelimiterChoices, chars_to_remove \in RemoveChoices :
          StartOperation([mode |-> "down", levels |-> 0, delete_empty |-> FALSE,
                          delimiters |-> delimiters,
                          chars_to_remove |-> chars_to_remove])

\* os.walk lists a directory: its files and sub-directories as they are now.
\* Bottom-up (upward mode) the directory is yielded after its sub-directories,
\* top-down (downward mode) before them.
ScanDir ==
    /\ pc = "walk"
    /\ stack # << >>
    /\ Head(stack).kind = "scan"
    /\ LET dir == Head(stack).dir
           names == {Basename(p) : p \in {q \in DOMAIN fs.files : Parent(q) = dir}}
           subs == {q \in fs.dirs : Len(q) > 0 /\ Parent(q) = dir}
       IN  IF ~IsDir(fs, dir) THEN stack' = Tail(stack)
           ELSE \E files \in Orderings(names), dirs \in Orderings(subs) :
                   LET scans == [i \in 1..Len(dirs) |-> Scan(dirs[i])]
                   IN  stack' = IF args.mode = "up"
                                THEN scans \o <<Yield(dir, files)>> \o Tail(stack)
                                ELSE <<Yield(dir, files)>> \o scans \o Tail(stack)
    /\ UNCHANGED <<fs, logs, current_operation_id, is_paused, stats, args, cur,
                   buf, pc, origs, performed, finals, faults, rb>>

\* The directory being yielded still has a file to process.
AtFile ==
    /\ pc = "walk"
    /\ stack # << >>
    /\ Head(stack).kind = "yield"
    /\ Head(stack).files # << >>
    /\ args.mode = "up" => UpMoves(Head(stack).dir, args.levels)
    /\ ~is_paused

NextFile == <<[Head(stack) EXCEPT !.files = Tail(@)]>> \o Tail(stack)

\* What the body of the per-file try block does up to shutil.move:
\* outcome "raise" (an exception before the move), "noop" (downward mode,
\* current_path = target_path) or "move" (from source to destination);
\* fs is the file system with the directories made on the way.
Plan(f, a, dir, file) ==
    LET current_path == Append(dir, file)
    IN  IF a.mode = "up"
        THEN LET target_path ==
                     handle_filename_conflict(f, Append(target_dir(dir, a.levels), file))
                 made == makedirs(f, Parent(target_path))
             IN  [outcome |-> IF made.ok THEN "move" ELSE "raise", fs |-> made.fs,
                  source |-> current_path, destination |-> target_path]
        ELSE IF SplitRaises(a.delimiters)
        THEN [outcome |-> "raise", fs |-> f,
              source |-> current_path, destination |-> current_path]
        ELSE LET parts == Fragments(file, a.delimiters, a.chars_to_remove)
                 nested == MakeNested(f, dir, parts)
                 new_filename == parts[Len(parts)] \o splitext(file)[2]
                 target_path == Append(nested.new_path, new_filename)
             IN  IF ~nested.ok
                 THEN [outcome |-> "raise", fs |-> nested.fs,
                       source |-> current_path, destination |-> current_path]
                 ELSE IF current_path = target_path
                 THEN [outcome |-> "noop", fs |-> nested.fs,
                       source |-> current_path, destination |-> target_path]
                 ELSE [outcome |-> "move", fs |-> nested.fs,
                       source |-> current_path,
                       destination |-> handle_filename_conflict(nested.fs, target_path)]

ThePlan == Plan(fs, args, Head(stack).dir, Head(Head(stack).files))

RecordError(file) == [stats EXCEPT !.errors = Append(@, file)]

\* The try block raises before or in shutil.move: the except clause records
\* the file in stats['errors'] and the loop goes on.
ProcessRaise ==
    /\ AtFile
    /\ ThePlan.outcome # "noop"
    /\ ThePlan.outcome = "move" =>
          ~shutil_move(ThePlan.fs, ThePlan.source, ThePlan.destination).ok
    /\ fs' = ThePlan.fs
    /\ stats' = RecordError(Head(Head(stack).files))
    /\ stack' = NextFile
    /\ UNCHANGED <<logs, current_operation_id, is_paused, args, cur, buf, pc,
                   origs, performed, finals, faults, rb>>

\* shutil.move fails for a reason of the environment (a permission error).
ProcessMoveFault ==
    /\ AtFile
    /\ ThePlan.outcome = "move"
    /\ faults < MaxFaults
    /\ faults' = faults + 1
    /\ fs' = ThePlan.fs
    /\ stats' = RecordError(Head(Head(stack).files))
    /\ stack' = NextFile
    /\ UNCHANGED <<logs, current_operation_id, is_paused, args, cur, buf, pc,
                   origs, performed, finals, rb>>

\* Downward mode, current_path = target_path: nothing moves, nothing is logged.
ProcessNoop ==
    /\ AtFile
    /\ ThePlan.outcome = "noop"
    /\ fs' = ThePlan.fs
    /\ stats' = [stats EXCEPT !.processed_files = @ + 1]
    /\ stack' = NextFile
    /\ UNCHANGED <<logs, current_operation_id, is_paused, args, cur, buf, pc,
                   origs, performed, finals, faults, rb>>

\* shutil.move(current_path, target_path) succeeds; log_file_move is next.
ProcessMove ==
    /\ AtFile
    /\ ThePlan.outcome = "move"
    /\ LET moved == shutil_move(ThePlan.fs, ThePlan.source, ThePlan.destination)
           move == [source |-> ThePlan.source, destination |-> ThePlan.destination,
                    file |-> fs.files[ThePlan.source],
                    clash |-> Exists(ThePlan.fs, ThePlan.destination)]
       IN  /\ moved.ok
           /\ fs' = moved.fs
           /\ cur' = move
           /\ performed' = [performed EXCEPT ![current_operation_id] = Append(@, move)]
    /\ stack' = NextFile
    /\ pc' = "moved"
    /\ UNCHANGED <<logs, current_operation_id, is_paused, stats, args, buf,
                   origs, finals, faults, rb>>

\* log_file_move: the log is read, the move appended to log_data, and the log
\* file opened for writing, which truncates it.
LogOpen ==
    /\ pc = "moved"
    /\ get_log_file(logs, current_operation_id)
    /\ logs[current_operation_id].readable
    /\ buf' = log_data_with(logs, current_operation_id, cur.source, cur.destination)
    /\ logs' = [logs EXCEPT ![current_operation_id] = NoLog]
    /\ pc' = "writing"
    /\ UNCHANGED <<fs, current_operation_id, is_paused, stats, args, stack, cur,
                   origs, performed, finals, faults, rb>>

\* json.dump writes log_data; then processed_files += 1.
LogDump ==
    /\ pc = "writing"
    /\ logs' = [logs EXCEPT ![current_operation_id] = buf]
    /\ buf' = NoLog
    /\ cur' = NoMove
    /\ stats' = [stats EXCEPT !.processed_files = @ + 1]
    /\ pc' = "walk"
    /\ UNCHANGED <<fs, current_operation_id, is_paused, args, stack, origs,
                   performed, finals, faults, rb>>

\* log_file_move raises before it writes (the log cannot be opened): the
\* per-file except clause records the error and the loop goes on.
LogFault ==
    /\ pc = "moved"
    /\ faults < MaxFaults
    /\ faults' = faults + 1
    /\ stats' = RecordError(Basename(cur.source))
    /\ cur' = NoMove
    /\ pc' = "walk"
    /\ UNCHANGED <<fs, logs, current_operation_id, is_paused, args, stack, buf,
                   origs, performed, finals, rb>>

\* The same looking at the files only.
Empty_files_only(f, dir) == \A p \in DOMAIN f.files : Parent(p) # dir

\* os.listdir(root) is empty
Empty(f, dir) ==
    /\ \A p \in DOMAIN f.files : Parent(p) # dir
    /\ \A q \in f.dirs : Len(q) > 0 => Parent(q) # dir

\* The files of the directory are done; upward mode removes the directory
\* when delete_empty was asked for and it is empty.
EndDir ==
    /\ pc = "walk"
    /\ stack # << >>
    /\ Head(stack).kind = "yield"
    /\ ~is_paused
    /\ IF args.mode = "up" /\ ~UpMoves(Head(stack).dir, args.levels)
       THEN TRUE
       ELSE Head(stack).files = << >>
    /\ fs' = IF args.mode = "up" /\ args.delete_empty /\ Empty(fs, Head(stack).dir)
             THEN [fs EXCEPT !.dirs = @ \ {Head(stack).dir}]
             ELSE fs
    /\ stack' = Tail(stack)
    /\ UNCHANGED <<logs, current_operation_id, is_paused, stats, args, cur, buf,
                   pc, origs, performed, finals, faults, rb>>

\* os.rmdir(root) raises (a permission error, a directory in use): the
\* except clause around it prints the failure and the traversal goes on.
EndDirRmdirFault ==
    /\ pc = "walk"
    /\ stack # << >>
    /\ Head(stack).kind = "yield"
    /\ ~is_paused
    /\ Head(stack).files = << >>
    /\ args.mode = "up" /\ args.delete_empty /\ Empty(fs, Head(stack).dir)
    /\ faults < MaxFaults
    /\ faults' = faults + 1
    /\ stack' = Tail(stack)
    /\ UNCHANGED <<fs, logs, current_operation_id, is_paused, stats, args, cur,
                   buf, pc, origs, performed, finals, rb>>

(***************************************************************************)
(* The end of a run, cancel, rollback, and the Ctrl+C handler.             *)
(***************************************************************************)
\* show_operation_stats reads stats['total_pause_duration'] when start_time
\* and end_time are set: a KeyError when the dictionary lacks the key.
StatsRaises(st) == st.start_time /\ st.end_time /\ ~st.has_pause_keys

Flip(t) == 1 - t

\* The traversal is over: end_operation sets end_time, marks the log
\* completed and shows the statistics.  An exception there is caught by the
\* except clause of process_up_movement / process_down_movement.
EndOperation ==
    /\ pc = "walk"
    /\ stack = << >>
    /\ current_operation_id # 0
    /\ stats' = [stats EXCEPT !.end_time = TRUE]
    /\ logs' = complete_operation(logs, current_operation_id)
    /\ finals' = [finals EXCEPT ![current_operation_id] = fs.files]
    /\ pc' = IF StatsRaises(stats') THEN "except" ELSE "menu"
    /\ UNCHANGED <<fs, current_operation_id, is_paused, args, stack, cur, buf,
                   origs, performed, faults, rb>>

\* cancel_operation up to show_operation_stats: the rollback of the current
\* operation, then end_time.
CancelOperation ==
    /\ current_operation_id # 0
    /\ LET r == rollback_operation(fs, logs, current_operation_id)
       IN  /\ fs' = r.fs
           /\ rb' = [tick |-> Flip(rb.tick), id |-> current_operation_id,
                     ret |-> r.ok]
    /\ stats' = [stats EXCEPT !.end_time = TRUE]

\* except Exception: cancel_operation(); raise.  The exception (the KeyError
\* of show_operation_stats again, or the one re-raised) is caught and printed
\* by move_up_structure / move_down_structure, and the menu is shown again.
ExceptCancel ==
    /\ pc = "except"
    /\ CancelOperation
    /\ args' = NoArgs
    /\ pc' = "menu"
    /\ UNCHANGED <<logs, current_operation_id, is_paused, stack, cur, buf,
                   origs, performed, finals, faults>>

\* The same with a rollback in which the shutil.move of one logged move
\* raises: rollback_operation returns False and cancel_operation goes on.
ExceptCancelFault ==
    /\ pc = "except"
    /\ current_operation_id # 0
    /\ faults < MaxFaults
    /\ \E bad \in 1..Len(logs[current_operation_id].moves) :
          LET r == rollback_failing(fs, logs, current_operation_id, bad)
          IN  /\ ~r.ok
              /\ fs' = r.fs
              /\ rb' = [tick |-> Flip(rb.tick), id |-> current_operation_id,
                        ret |-> r.ok]
    /\ faults' = faults + 1
    /\ stats' = [stats EXCEPT !.end_time = TRUE]
    /\ args' = NoArgs
    /\ pc' = "menu"
    /\ UNCHANGED <<logs, current_operation_id, is_paused, stack, cur, buf,
                   origs, performed, finals>>

\* main_menu choice 4, handle_rollback by operation identifier: any
\* identifier may be typed, Len(logs) + 1 is one no log file exists for.
HandleRollback ==
    /\ pc = "menu"
    /\ \E operation_id \in 1..(Len(logs) + 1) :
          LET r == rollback_operation(fs, logs, operation_id)
          IN  /\ fs' = r.fs
              /\ rb' = [tick |-> Flip(rb.tick), id |-> operation_id, ret |-> r.ok]
    /\ UNCHANGED <<logs, current_operation_id, is_paused, stats, args, stack,
                   cur, buf, pc, origs, performed, finals, faults>>

\* main_menu choice 6.
Exit ==
    /\ pc = "menu"
    /\ pc' = "exited"
    /\ UNCHANGED <<fs, logs, current_operation_id, is_paused, stats, args,
                   stack, cur, buf, origs, performed, finals, faults, rb>>

\* Ctrl+C while files are being processed: KeyboardInterrupt is no Exception,
\* so it passes every except clause of the run and reaches main_menu, which
\* calls handle_keyboard_interrupt.  The traversal is gone; a log file that
\* was being written stays as it is.
KeyboardInterrupt ==
    /\ pc \in {"walk", "moved", "writing"}
    /\ pc' = "interrupt"
    /\ stack' = << >>
    /\ cur' = NoMove
    /\ buf' = NoLog
    /\ args' = NoArgs
    /\ UNCHANGED <<fs, logs, current_operation_id, is_paused, stats, origs,
                   performed, finals, faults, rb>>

\* Ctrl+C at a prompt of a menu choice (the path asked by get_path_input, the
\* identifier asked by handle_rollback): no traversal is under way.
KeyboardInterruptAtMenu ==
    /\ pc = "menu"
    /\ pc' = "interrupt"
    /\ UNCHANGED <<fs, logs, current_operation_id, is_paused, stats, args,
                   stack, cur, buf, origs, performed, finals, faults, rb>>

\* handle_keyboard_interrupt choice 1: pause_operation, then wait for 'r'.
PauseOperation ==
    /\ pc = "interrupt"
    /\ is_paused' = TRUE
    /\ stats' = IF is_paused THEN stats ELSE [stats EXCEPT !.pause_time = TRUE]
    /\ pc' = "paused"
    /\ UNCHANGED <<fs, logs, current_operation_id, args, stack, cur, buf,
                   origs, performed, finals, faults, rb>>

\* 'r' while paused: resume_operation adds the pause to
\* stats['total_pause_duration'] and returns to the menu.
ResumeOperation ==
    /\ pc = "paused"
    /\ is_paused
    /\ stats.has_pause_keys
    /\ \E pause_duration \in 0..MaxPause :
          /\ stats.total_pause_duration + pause_duration <= MaxPause
          /\ stats' = [stats EXCEPT
                          !.total_pause_duration = @ + pause_duration,
                          !.pause_time = FALSE]
    /\ is_paused' = FALSE
    /\ pc' = "menu"
    /\ UNCHANGED <<fs, logs, current_operation_id, args, stack, cur, buf,
                   origs, performed, finals, faults, rb>>

\* 'r' while paused, with a statistics dictionary that start_operation made:
\* stats['total_pause_duration'] += ... raises KeyError before is_paused is
\* reset; raised inside main_menu's except clause, it ends the program.
ResumeRaises ==
    /\ pc = "paused"
    /\ is_paused
    /\ ~stats.has_pause_keys
    /\ pc' = "crashed"
    /\ UNCHANGED <<fs, logs, current_operation_id, is_paused, stats, args,
                   stack, cur, buf, origs, performed, finals, faults, rb>>

\* handle_keyboard_interrupt choice 2, confirmed: cancel_operation.  Its
\* show_operation_stats raises and ends the program.
CancelFromHandler ==
    /\ pc = "interrupt"
    /\ CancelOperation
    /\ pc' = IF StatsRaises(stats') THEN "crashed" ELSE "exited"
    /\ UNCHANGED <<logs, current_operation_id, is_paused, args, stack, cur,
                   buf, origs, performed, finals, faults>>

\* handle_keyboard_interrupt choice 2 with no operation ever started:
\* cancel_operation does nothing, the handler returns True, main_menu ends.
CancelNothing ==
    /\ pc = "interrupt"
    /\ current_operation_id = 0
    /\ pc' = "exited"
    /\ UNCHANGED <<fs, logs, current_operation_id, is_paused, stats, args,
                   stack, cur, buf, origs, performed, finals, faults, rb>>

\* handle_keyboard_interrupt choice 3 (or a cancel not confirmed): back to
\* the menu.
ContinueFromHandler ==
    /\ pc = "interrupt"
    /\ pc' = "menu"
    /\ UNCHANGED <<fs, logs, current_operation_id, is_paused, stats, args,
                   stack, cur, buf, origs, performed, finals, faults, rb>>

Next ==
    \/ MoveUpStructure
    \/ MoveDownStructure
    \/ ScanDir
    \/ ProcessRaise
    \/ ProcessMoveFault
    \/ ProcessNoop
    \/ ProcessMove
    \/ LogOpen
    \/ LogDump
    \/ LogFault
    \/ EndDir
    \/ EndDirRmdirFault
    \/ EndOperation
    \/ ExceptCancel
    \/ ExceptCancelFault
    \/ HandleRollback
    \/ Exit
    \/ KeyboardInterrupt
    \/ KeyboardInterruptAtMenu
    \/ PauseOperation
    \/ ResumeOperation
    \/ ResumeRaises
    \/ CancelFromHandler
    \/ CancelNothing
    \/ ContinueFromHandler

Spec == Init /\ [][Next]_vars

(***************************************************************************)
(* Notions the properties share.                                           *)
(***************************************************************************)
Ops == 1..Len(logs)

\* The moves of a relocation list as the log records them.
AsLogged(moves) ==
    [k \in 1..Len(moves) |->
        [source |-> moves[k].source, destination |-> moves[k].destination]]

\* Every relocation the run of operation id performed is in its log, in order.
AllLogged(id) ==
    /\ logs[id].readable
    /\ logs[id].moves = AsLogged(performed[id])

\* Operation id is completed and the tree is as its run left it.
CompletedIntact(id) ==
    /\ logs[id].readable
    /\ logs[id].status = "completed"
    /\ fs.files = finals[id]

\* This step is a call of rollback_operation(id).
RollbackStep(id) == rb'.tick # rb.tick /\ rb'.id = id

\* The files operation id relocated.
MovedFiles(id) == {performed[id][k].file : k \in 1..Len(performed[id])}

\* File i is where it was when the run of operation id started.
BackAtSource(f, id, i) ==
    \E p \in DOMAIN origs[id] :
        origs[id][p] = i /\ IsFile(f, p) /\ f.files[p] = i

(***************************************************************************)
(* C1.  Round trip: rollback(id) of a completed operation whose run had no *)
(* error and logged every move, on the tree as the run left it, returns    *)
(* success; afterwards every moved file is back at its original source     *)
(* path and no moved file remains at the destination its move was logged   *)
(* with.                                                                   *)
(***************************************************************************)
C1_RoundTrip ==
    [][\A id \in Ops :
          (RollbackStep(id) /\ CompletedIntact(id) /\ AllLogged(id)
             /\ id = current_operation_id /\ stats.errors = << >>
             /\ faults' = faults) =>
             /\ rb'.ret
             /\ \A i \in MovedFiles(id) : BackAtSource(fs', id, i)
             /\ \A k \in 1..Len(performed[id]) :
                   LET m == performed[id][k]
                   IN  ~(IsFile(fs', m.destination)
                         /\ fs'.files[m.destination] = m.file)]_vars

(***************************************************************************)
(* C2.  Cancellation rollback: when cancel() is invoked from the Ctrl+C    *)
(* handler on a run that has moved and logged k files and is still         *)
(* in_progress, afterwards those k files are back at their source paths    *)
(* and every other file is where it was before the run.                    *)
(***************************************************************************)
C2_CancelRollsBack ==
    [][(pc = "interrupt" /\ RollbackStep(current_operation_id)
        /\ logs[current_operation_id].status = "in_progress"
        /\ AllLogged(current_operation_id)) =>
          fs'.files = origs[current_operation_id]]_vars

(***************************************************************************)
(* C3.  A run whose traversal finishes (no cancel, no interrupt, no        *)
(* failure of the log store or of a move) ends Completed: when             *)
(* process_up_movement / process_down_movement, having moved at least one  *)
(* file, returns to the menu, the operation is                             *)
(* completed, no rollback was invoked for it, and every moved file is at   *)
(* the destination of its last logged move.                                *)
(***************************************************************************)
LastMoveOf(id, i) ==
    LET ks == {k \in 1..Len(performed[id]) : performed[id][k].file = i}
    IN  performed[id][CHOOSE k \in ks : \A j \in ks : j <= k]

C3_EndsCompleted ==
    [][(pc \in {"walk", "except"} /\ pc' = "menu"
        /\ faults' = 0 /\ stats.errors = << >>
        /\ MovedFiles(current_operation_id) # {}) =>
          LET id == current_operation_id
          IN  /\ logs'[id].readable
              /\ logs'[id].status = "completed"
              /\ rb' = rb
              /\ \A i \in MovedFiles(id) :
                    /\ IsFile(fs', LastMoveOf(id, i).destination)
                    /\ fs'.files[LastMoveOf(id, i).destination] = i]_vars

(***************************************************************************)
(* C4.  No silent overwrite (I3): the destination of each performed move   *)
(* did not exist immediately before the move, and the destinations logged  *)
(* under one operation (no failure of the environment involved) are        *)
(* pairwise distinct.                                                      *)
(***************************************************************************)
C4_NoOverwrite ==
    \A id \in Ops :
        /\ \A k \in 1..Len(performed[id]) : ~performed[id][k].clash
        /\ (logs[id].readable /\ faults = 0) =>
              \A j, k \in 1..Len(logs[id].moves) :
                  j # k => logs[id].moves[j].destination
                              # logs[id].moves[k].destination

(***************************************************************************)
(* C5.  Log/move consistency: between two files of a run the log of the    *)
(* operation is exactly the list of relocations performed so far, and an   *)
(* interruption (no failure of the environment involved) loses at most the *)
(* one move in flight: outside log_file_move at most one performed move is *)
(* missing from the persisted list.                                        *)
(***************************************************************************)
Persisted(id) == IF logs[id].readable THEN logs[id].moves ELSE << >>

IsPrefix(s, t) == Len(s) <= Len(t) /\ s = SubSeq(t, 1, Len(s))

C5_LogMoveConsistency ==
    \A id \in Ops :
        faults = 0 =>
           /\ (pc = "walk" /\ id = current_operation_id) => AllLogged(id)
           /\ pc \notin {"moved", "writing"} =>
                 /\ IsPrefix(Persisted(id), AsLogged(performed[id]))
                 /\ Len(performed[id]) - Len(Persisted(id)) <= 1

(***************************************************************************)
(* C6.  Status lifecycle (I2): an operation is created in_progress with an *)
(* empty move list; the status of its record changes only from in_progress *)
(* to completed or cancelled; a completed or cancelled record keeps its    *)
(* status for ever; and a call of rollback leaves every record (status and *)
(* move list) unchanged.  (A log file that Ctrl+C left half written holds  *)
(* no status: the formula speaks of the records that can be read.)         *)
(***************************************************************************)
Terminal(status) == status \in {"completed", "cancelled"}

C6_StatusLifecycle ==
    [][/\ \A id \in 1..Len(logs') :
             /\ id \notin Ops =>
                   logs'[id] = [readable |-> TRUE, status |-> "in_progress",
                                moves |-> << >>]
             /\ (id \in Ops /\ logs[id].readable /\ logs'[id].readable
                 /\ logs'[id].status # logs[id].status) =>
                   logs[id].status = "in_progress" /\ Terminal(logs'[id].status)
             /\ (id \in Ops /\ logs[id].readable /\ Terminal(logs[id].status)) =>
                   logs'[id].readable /\ logs'[id].status = logs[id].status
       /\ Len(logs') >= Len(logs)
       /\ rb'.tick # rb.tick => logs' = logs]_vars

\* Witness: a completed operation with a logged move has been rolled back.
C6_Witness ==
    /\ Len(logs) >= 1
    /\ logs[1].readable
    /\ logs[1].status = "completed"
    /\ Len(logs[1].moves) >= 1
    /\ rb.id = 1
    /\ rb.ret

(***************************************************************************)
(* C7.  cancel() moves the run to Cancelled: after cancel() from the       *)
(* Ctrl+C handler on an operation whose record is in_progress, the status  *)
(* of the record is cancelled.                                             *)
(***************************************************************************)
C7_CancelIsTerminal ==
    [][(pc = "interrupt" /\ RollbackStep(current_operation_id)
        /\ logs[current_operation_id].readable
        /\ logs[current_operation_id].status = "in_progress") =>
          /\ logs'[current_operation_id].readable
          /\ logs'[current_operation_id].status = "cancelled"]_vars

(***************************************************************************)
(* C9.  Signals take effect only between files: whenever the engine is     *)
(* paused (no failure of the environment involved), every file the run     *)
(* relocated has its log entry.                                            *)
(***************************************************************************)
C9_SignalsBetweenFiles ==
    (is_paused /\ current_operation_id # 0 /\ faults = 0) =>
        AllLogged(current_operation_id)

(***************************************************************************)
(* C10.  Pause/resume round trip: after start(), a resume() that follows   *)
(* pause() leaves the engine not paused, does not decrease the cumulative  *)
(* paused duration and leaves processed_files unchanged.                   *)
(***************************************************************************)
C10_PauseResume ==
    [][(pc = "paused" /\ pc' # "paused" /\ current_operation_id # 0) =>
          /\ ~is_paused'
          /\ stats'.total_pause_duration >= stats.total_pause_duration
          /\ stats'.processed_files = stats.processed_files]_vars

(***************************************************************************)
(* C8.  Every started run eventually reaches a terminal state.  The run    *)
(* itself and the answers to the prompts of the Ctrl+C handler are fair:   *)
(* the loop keeps stepping, a prompt is eventually answered and a pause is *)
(* eventually followed by a resume.  Ctrl+C and the failures of the        *)
(* environment may or may not happen.                                      *)
(***************************************************************************)
RunStep ==
    \/ ScanDir
    \/ ProcessRaise
    \/ ProcessNoop
    \/ ProcessMove
    \/ LogOpen
    \/ LogDump
    \/ EndDir
    \/ EndOperation
    \/ ExceptCancel

HandlerStep ==
    \/ PauseOperation
    \/ CancelFromHandler
    \/ CancelNothing
    \/ ContinueFromHandler

ResumeStep == ResumeOperation \/ ResumeRaises

\* A traversal is under way.
Running == pc \in {"walk", "moved", "writing", "except"}

\* The loop keeps stepping while a traversal is under way (weak fairness of
\* RunStep, written out with its enabling condition Running), a prompt of
\* the handler is eventually answered, and a pause is eventually followed
\* by a resume.
FairSpec ==
    /\ Init
    /\ [][Next]_vars
    /\ ([]<>(~Running) \/ []<><<RunStep>>_vars)
    /\ WF_vars(HandlerStep)
    /\ WF_vars(ResumeStep)

C8_Terminates ==
    (Ops # {}) ~>
        (Ops # {} /\ \A id \in Ops : logs[id].readable /\ Terminal(logs[id].status))

(***************************************************************************)
(* C11.  The paused state is reachable only from a running operation:      *)
(* whenever the engine is paused, an operation has been started and its    *)
(* record is not completed or cancelled.                                   *)
(***************************************************************************)
RunActive ==
    /\ current_operation_id # 0
    /\ ~(logs[current_operation_id].readable
         /\ Terminal(logs[current_operation_id].status))

C11_PausedOnlyWhileRunning == is_paused => RunActive

(***************************************************************************)
(* C12.  rollback requested from the menu on an identifier that has no log *)
(* or on an operation that is not completed returns False, moves no file,  *)
(* leaves every log unchanged and returns to the menu (it does not raise). *)
(***************************************************************************)
NotRollbackable(id) ==
    \/ id \notin Ops
    \/ ~logs[id].readable
    \/ logs[id].status # "completed"

C12_RollbackRefused ==
    [][(pc = "menu" /\ rb'.tick # rb.tick /\ NotRollbackable(rb'.id)) =>
          /\ ~rb'.ret
          /\ fs' = fs
          /\ logs' = logs
          /\ pc' = "menu"]_vars

\* Witness: the menu's rollback was refused for an operation in progress
\* that has a logged move.
C12_Witness ==
    /\ pc = "menu"
    /\ rb.tick = 1
    /\ rb.id \in Ops
    /\ logs[rb.id].readable
    /\ logs[rb.id].status = "in_progress"
    /\ Len(logs[rb.id].moves) >= 1
    /\ ~rb.ret
    /\ fs.files # origs[rb.id]

(***************************************************************************)
(* C13.  Rollback tolerates missing destinations: in a rollback of a       *)
(* completed operation (none of its moves failing for a reason of the      *)
(* environment) in which the destination of some logged move no longer     *)
(* exists when its turn comes, that move is skipped, every other move is   *)
(* reverted (the file goes from the destination back to the source, the    *)
(* parent directories made as needed) and rollback returns True.           *)
(***************************************************************************)
\* The file at src is at dst afterwards, with the directories above dst.
Relocate(f, src, dst) ==
    [files |-> With(Without(f.files, src), dst, f.files[src]),
     dirs |-> f.dirs \cup Prefixes(Parent(dst))]

\* The rollback the claim describes, moves[k] first: the tree it leaves and
\* the moves it skipped.
RECURSIVE SkipOrRevert(_, _, _)
SkipOrRevert(f, moves, k) ==
    IF k = 0 THEN [fs |-> f, skipped |-> {}]
    ELSE IF ~Exists(f, moves[k].destination)
    THEN LET rest == SkipOrRevert(f, moves, k - 1)
         IN  [fs |-> rest.fs, skipped |-> rest.skipped \cup {k}]
    ELSE SkipOrRevert(Relocate(f, moves[k].destination, moves[k].source),
                      moves, k - 1)

C13_SkipsMissing ==
    [][(rb'.tick # rb.tick /\ ~NotRollbackable(rb'.id) /\ faults' = faults) =>
          LET moves == logs[rb'.id].moves
              told == SkipOrRevert(fs, moves, Len(moves))
          IN  told.skipped # {} => (rb'.ret /\ fs' = told.fs)]_vars

(***************************************************************************)
(* C14.  Rollback is continue-on-error: when the revert of one logged move *)
(* fails (its shutil.move raises), rollback returns False but still        *)
(* attempts every remaining move in reverse order: every other move whose  *)
(* revert can succeed (its file is at the destination and nothing is at    *)
(* the source) is reverted.                                                *)
(***************************************************************************)
\* moves[k] can be reverted in tree f.
Revertible(f, moves, k) ==
    /\ IsFile(f, moves[k].destination)
    /\ ~Exists(f, moves[k].source)
    /\ IsDir(f, Parent(moves[k].source))

C14_ContinueOnError ==
    [][(rb'.tick # rb.tick /\ ~NotRollbackable(rb'.id) /\ faults' # faults) =>
          LET moves == logs[rb'.id].moves
          IN  /\ ~rb'.ret
              /\ \E bad \in 1..Len(moves) :
                    \A k \in (1..Len(moves)) \ {bad} :
                        Revertible(fs, moves, k) =>
                          /\ IsFile(fs', moves[k].source)
                          /\ fs'.files[moves[k].source]
                                = fs.files[moves[k].destination]]_vars

(***************************************************************************)
(* C15.  A single-file failure is non-fatal: when the move of one file     *)
(* fails, the failure is recorded once in stats['errors'], no log entry is *)
(* appended for the file and the traversal goes on with the files that     *)
(* remain; and the run (nothing else failing, no Ctrl+C) still ends        *)
(* Completed: its status is completed and no rollback is invoked for it.   *)
(***************************************************************************)
\* A step of the traversal in which the processing of a file fails before
\* its move is made.
FileFailureStep ==
    /\ pc = "walk"
    /\ pc' = "walk"
    /\ stats'.errors # stats.errors

\* The failure is recorded once, nothing is logged or moved, and the loop is
\* at the next file.
C15_FailureIsLocal ==
    [][FileFailureStep =>
          /\ stats'.errors = Append(stats.errors, Head(Head(stack).files))
          /\ logs' = logs
          /\ fs'.files = fs.files
          /\ stack' = NextFile]_vars

C15_FailureNonFatal ==
    [][/\ FileFailureStep =>
             /\ stats'.errors = Append(stats.errors, Head(Head(stack).files))
             /\ logs' = logs
             /\ fs'.files = fs.files
             /\ stack' = NextFile
       /\ (pc \in {"walk", "except"} /\ pc' = "menu"
           /\ faults = 1 /\ Len(stats.errors) = 1
           /\ AllLogged(current_operation_id)
           /\ MovedFiles(current_operation_id) # {}) =>
             /\ logs'[current_operation_id].status = "completed"
             /\ rb' = rb]_vars

(***************************************************************************)
(* C16.  A failure to persist the log is fatal: when log_file_move fails   *)
(* for a move the run has made, the run aborts (the traversal is over, no  *)
(* further file is moved) and cancel_operation is invoked.                 *)
(***************************************************************************)
\* log_file_move raises in this step.
LogFailureStep ==
    /\ pc = "moved"
    /\ pc' # "interrupt"
    /\ faults' # faults

C16_LogFailureIsFatal ==
    [][LogFailureStep => (pc' = "except" /\ stack' = << >>)]_vars

(***************************************************************************)
(* OperationLogger called on its own: create_operation_log, and            *)
(* log_file_move and complete_operation with any identifier, among them    *)
(* Len(logs) + 1, for which no log file exists.  logs is the store, current_operation_id the identifier of the  *)
(* last call, cur its move, and pc tells how the call ended: "returned" or *)
(* "raised".                                                               *)
(***************************************************************************)
\* log_file_move as a whole: nothing happens when the log file does not
\* exist; json.load raises when it cannot be parsed.
log_file_move(store, operation_id, source, destination) ==
    IF ~get_log_file(store, operation_id)
    THEN [raises |-> FALSE, store |-> store]
    ELSE IF ~store[operation_id].readable
    THEN [raises |-> TRUE, store |-> store]
    ELSE [raises |-> FALSE,
          store |-> [store EXCEPT ![operation_id] =
                        log_data_with(store, operation_id, source, destination)]]

LoggerPaths == {<<NameF>>, <<DirX, NameF>>}

LoggerInit ==
    /\ logs = << >>
    /\ current_operation_id = 0
    /\ pc = "returned"
    /\ fs = [files |-> << >>, dirs |-> {Root}]
    /\ is_paused = FALSE
    /\ stats = InitStats
    /\ args = NoArgs
    /\ stack = << >>
    /\ cur = NoMove
    /\ buf = NoLog
    /\ origs = << >>
    /\ performed = << >>
    /\ finals = << >>
    /\ faults = 0
    /\ rb = [tick |-> 0, id |-> 0, ret |-> FALSE]

CreateOperationLogCall ==
    /\ Len(logs) < MaxRuns + 1
    /\ logs' = create_operation_log(logs)
    /\ current_operation_id' = Len(logs) + 1
    /\ cur' = NoMove
    /\ pc' = "returned"
    /\ UNCHANGED <<fs, is_paused, stats, args, stack, buf, origs, performed,
                   finals, faults, rb>>

LogFileMoveCall ==
    \E operation_id \in 1..(Len(logs) + 1), source, destination \in LoggerPaths :
        LET r == log_file_move(logs, operation_id, source, destination)
        IN  /\ operation_id \in Ops => Len(logs[operation_id].moves) < MaxFiles
            /\ logs' = r.store
            /\ current_operation_id' = operation_id
            /\ cur' = [NoMove EXCEPT !.source = source, !.destination = destination]
            /\ pc' = IF r.raises THEN "raised" ELSE "returned"
            /\ UNCHANGED <<fs, is_paused, stats, args, stack, buf, origs,
                           performed, finals, faults, rb>>

CompleteOperationCall ==
    \E operation_id \in 1..(Len(logs) + 1) :
        /\ logs' = complete_operation(logs, operation_id)
        /\ current_operation_id' = operation_id
        /\ cur' = NoMove
        /\ pc' = "returned"
        /\ UNCHANGED <<fs, is_paused, stats, args, stack, buf, origs,
                       performed, finals, faults, rb>>

LoggerNext ==
    \/ CreateOperationLogCall
    \/ LogFileMoveCall
    \/ CompleteOperationCall

LoggerSpec == LoggerInit /\ [][LoggerNext]_vars

(***************************************************************************)
(* C17.  log_file_move and complete_operation called with an identifier    *)
(* that has no persisted operation fail with an error the caller sees, and *)
(* leave the store unchanged.                                              *)
(***************************************************************************)
C17_UnknownIdRaises ==
    [][current_operation_id' \notin 1..Len(logs') =>
          (pc' = "raised" /\ logs' = logs)]_vars

(***************************************************************************)
(* C18: for every target path and every file system state,                 *)
(* handle_filename_conflict returns the target unchanged when the target   *)
(* does not exist; otherwise it returns 'stem (n)ext' for the least n >= 1 *)
(* such that this path does not exist; the returned path never exists at   *)
(* the time of the call.                                                   *)
(***************************************************************************)
NameF2 == <<"f", " ", "(", "2", ")", ".", "t">>

\* The targets asked about: every candidate file path, the name the first two
\* counters lead to, and every directory of the tree.
ConflictTargets ==
    {Universe[i] : i \in 1..Len(Universe)} \cup {<<NameF2>>} \cup (fs.dirs \ {Root})

\* 'stem (n)ext' next to the target.
Numbered(target_path, n) ==
    LET name == Basename(target_path)
        dot == LastDot(name)
        stem == IF dot > 1 /\ \E i \in 1..(dot - 1) : name[i] # "."
                THEN SubSeq(name, 1, dot - 1) ELSE name
        ext == SubSeq(name, Len(stem) + 1, Len(name))
    IN  SubSeq(target_path, 1, Len(target_path) - 1)
           \o <<stem \o <<" ", "(">> \o Decimal(n) \o <<")">> \o ext>>

C18_LeastFreeCounter ==
    \A target \in ConflictTargets :
        LET resolved == handle_filename_conflict(fs, target)
        IN  /\ ~Exists(fs, resolved)
            /\ ~Exists(fs, target) => resolved = target
            /\ Exists(fs, target) =>
                  \E n \in 1..(MaxFiles + 1) :
                      /\ resolved = Numbered(target, n)
                      /\ \A m \in 1..(n - 1) : Exists(fs, Numbered(target, m))

\* A move whose target and whose first numbered name were both taken.
C18_Witness ==
    /\ pc = "moved"
    /\ cur.source = <<NameF>>
    /\ cur.destination = <<NameF2>>
    /\ IsFile(fs, <<NameF1>>)

(***************************************************************************)
(* C19: a file whose computed target path equals its current path is a     *)
(* no-op in both modes: it is not moved or renamed and no move is recorded *)
(* for it; so a run on a tree that is already transformed (upward: every   *)
(* file directly in the root) performs no moves.                           *)
(***************************************************************************)
\* The file about to be processed has target_path = current_path, the target
\* being the one computed before handle_filename_conflict.
InPlace ==
    /\ AtFile
    /\ LET dir == Head(stack).dir
           file == Head(Head(stack).files)
       IN  IF args.mode = "up"
           THEN Append(target_dir(dir, args.levels), file) = Append(dir, file)
           ELSE ThePlan.outcome = "noop"

C19_InPlaceIsNoop ==
    [][InPlace => (fs'.files = fs.files /\ performed' = performed)]_vars

(***************************************************************************)
(* C20: upward transform: for a file in a directory at depth d below the   *)
(* operation root and levels >= 1, the target directory is the ancestor at *)
(* depth max(0, d - levels), which is the root or inside it, and when the  *)
(* target path is free the file keeps its base name.                       *)
(***************************************************************************)
\* An upward run with levels >= 1 moves a file.
UpwardMoveStep ==
    /\ pc = "walk"
    /\ pc' = "moved"
    /\ args.mode = "up"
    /\ args.levels >= 1

C20_UpwardTarget ==
    [][UpwardMoveStep =>
          LET dir == Head(stack).dir
              file == Head(Head(stack).files)
              d == Len(dir)
              depth == IF d - args.levels > 0 THEN d - args.levels ELSE 0
              ancestor == [k \in 1..depth |-> dir[k]]
          IN  /\ cur'.source = dir \o <<file>>
              /\ Parent(cur'.destination) = ancestor
              /\ ancestor \in Prefixes(dir)
              /\ ~Exists(fs, ancestor \o <<file>>) =>
                    Basename(cur'.destination) = file]_vars

\* A file two directories down has been moved one level up under its name.
C20_Witness ==
    /\ pc = "moved"
    /\ args.mode = "up"
    /\ cur.source = <<DirX, DirY, NameF>>
    /\ cur.destination = <<DirX, NameF>>

(***************************************************************************)
(* C21: downward transform: after removing every occurrence of each        *)
(* removal string from the stem in the given order and splitting on each   *)
(* delimiter in sequence, the file ends at                                 *)
(* <current dir>/f1/.../f(k-1)/fk+ext, f1..fk being the fragments: all     *)
(* fragments but the last are nested directories, the last fragment plus   *)
(* the original extension is the file name.  Stated for the files whose    *)
(* processing does not fail, for delimiter lists without an empty string,  *)
(* and for a target that is free or is the file's own path; an empty       *)
(* fragment names no directory.                                            *)
(***************************************************************************)
RECURSIVE RemoveLiterally(_, _)
RemoveLiterally(stem, removals) ==
    IF removals = << >> THEN stem
    ELSE RemoveLiterally(Replace(stem, Head(removals)), Tail(removals))

NestedTarget(dir, file, delimiters, removals) ==
    LET parts == SplitParts(<<RemoveLiterally(splitext(file)[1], removals)>>,
                            delimiters)
        k == Len(parts)
        folders == SelectSeq(SubSeq(parts, 1, k - 1), LAMBDA p : p # << >>)
    IN  dir \o folders \o <<parts[k] \o splitext(file)[2]>>

\* A downward run has processed its next file without recording an error.
DownwardFileStep ==
    /\ AtFile
    /\ args.mode = "down"
    /\ ~SplitRaises(args.delimiters)
    /\ stack' = NextFile
    /\ stats'.errors = stats.errors
    /\ faults' = faults

WithoutEmpty(strings) == SelectSeq(strings, LAMBDA s : s # << >>)

\* A downward run given an empty delimiter has dealt with its next file.
EmptyDelimiterStep ==
    /\ AtFile
    /\ args.mode = "down"
    /\ SplitRaises(args.delimiters)
    /\ stack' = NextFile
    /\ faults' = faults

C22_EmptyEntriesSkipped ==
    [][EmptyDelimiterStep =>
          LET skipped == Plan(fs, [args EXCEPT !.delimiters = WithoutEmpty(@)],
                              Head(stack).dir, Head(Head(stack).files))
              moved == shutil_move(skipped.fs, skipped.source, skipped.destination)
          IN  /\ skipped.outcome = "noop" =>
                    (stats'.errors = stats.errors /\ fs'.files = fs.files)
              /\ (skipped.outcome = "move" /\ moved.ok) =>
                    (stats'.errors = stats.errors /\ fs'.files = moved.fs.files)]_vars

(***************************************************************************)
(* C23: upward mode removes a directory only if delete_empty was asked for *)
(* and the directory is empty after its files were processed; a non-empty  *)
(* directory is never removed, no directory is removed when delete_empty   *)
(* is false, and a failed removal neither stops the run nor triggers a     *)
(* rollback.                                                               *)
(***************************************************************************)
\* Nothing lies below dir.
HoldsNothing(f, dir) ==
    \A p \in (DOMAIN f.files) \cup f.dirs :
        ~(Len(p) > Len(dir) /\ SubSeq(p, 1, Len(dir)) = dir)

\* os.rmdir has failed at the end of a directory.
RemovalFailedStep ==
    /\ pc = "walk"
    /\ stack # << >>
    /\ Head(stack).kind = "yield"
    /\ Head(stack).files = << >>
    /\ args.delete_empty
    /\ stack' = Tail(stack)
    /\ faults' # faults

C23_EmptyDirRemoval ==
    [][/\ \A dir \in fs.dirs \ fs'.dirs :
             /\ pc = "walk" /\ args.mode = "up" /\ args.delete_empty
             /\ stack # << >> /\ Head(stack).kind = "yield"
             /\ dir = Head(stack).dir
             /\ Head(stack).files = << >>
             /\ HoldsNothing(fs, dir)
             /\ fs'.dirs = fs.dirs \ {dir}
             /\ fs'.files = fs.files
       /\ RemovalFailedStep =>
             /\ pc' = "walk"
             /\ fs' = fs
             /\ rb' = rb
             /\ logs' = logs
             /\ stats' = stats]_vars

\* x/y was emptied by the run and removed; x/, which received the file, stays.
C23_Witness ==
    /\ pc = "walk"
    /\ args.mode = "up" /\ args.delete_empty
    /\ Len(performed[current_operation_id]) = 1
    /\ performed[current_operation_id][1].source = <<DirX, DirY, NameF>>
    /\ performed[current_operation_id][1].destination = <<DirX, NameF>>
    /\ <<DirX, DirY>> \notin fs.dirs
    /\ <<DirX>> \in fs.dirs

\* A removal has failed and the traversal has gone on to the end of the run.
C23_FailedRemovalWitness ==
    /\ pc = "walk"
    /\ args.mode = "up" /\ args.delete_empty
    /\ faults = 1
    /\ stack = << >>
    /\ stats.errors = << >>
    /\ Len(performed[current_operation_id]) = 1
    /\ performed[current_operation_id][1].source = <<DirX, DirY, NameF>>
    /\ <<DirX, DirY>> \in fs.dirs
    /\ HoldsNothing(fs, <<DirX, DirY>>)

(***************************************************************************)
(* C24: the statistics of a run stay within the counted total: in every    *)
(* reachable state processed_files plus the number of recorded per-file    *)
(* errors never exceeds total_files counted at the start, i.e. no file is  *)
(* processed more than once in one run.                                    *)
(***************************************************************************)
C24_WithinTotal ==
    faults = 0 =>
        stats.processed_files + Len(stats.errors) <= stats.total_files

(***************************************************************************)
(* C25: rollback is idempotent: for a completed operation, a second        *)
(* rollback(id) right after a successful rollback(id) returns success and  *)
(* changes no file, also when one logged move's destination is another     *)
(* logged move's source.                                                   *)
(***************************************************************************)
\* rollback_operation is called again for the operation it has just rolled
\* back with success.
SecondRollbackStep ==
    /\ pc = "menu"
    /\ rb.ret
    /\ rb'.tick # rb.tick
    /\ rb'.id = rb.id
    /\ faults' = 0

C25_RollbackIdempotent ==
    [][SecondRollbackStep => (rb'.ret /\ fs'.files = fs.files)]_vars

====
